---------------------------- MODULE Spec2Model ----------------------------
(***************************************************************************)
(* A model of the C++ -> Python transpiler of src/transpiler.py and of the *)
(* request handler of src/app.py.                                          *)
(*                                                                         *)
(* Text is modelled character by character: a Python str is a sequence of  *)
(* one-character strings.  The lexer is a state machine over the input     *)
(* (one action per token rule), the parser reduces one top-level statement *)
(* per step; the text synthesized by each p_ function is an operator of    *)
(* the same name.                                                          *)
(***************************************************************************)
EXTENDS Integers, Sequences, FiniteSets, TLC

(***************************************************************************)
(* Python str helpers                                                      *)
(***************************************************************************)

\* The characters str.strip() / str.rstrip() remove (those of the model's alphabet).
PyWhitespace == {" ", "\t", "\n", "\r"}

NL == <<"\n">>

\* the index of the first element of s at or after p that is in set, Len(s)+1 if none
RECURSIVE FindFirst(_, _, _)
FindFirst(s, p, set) ==
    IF p > Len(s) THEN Len(s) + 1
    ELSE IF s[p] \in set THEN p
    ELSE FindFirst(s, p + 1, set)

\* the index of the first element of s at or after p that is NOT in set
RECURSIVE FindFirstNot(_, _, _)
FindFirstNot(s, p, set) ==
    IF p > Len(s) THEN Len(s) + 1
    ELSE IF s[p] \notin set THEN p
    ELSE FindFirstNot(s, p + 1, set)

\* s.split('\n'): always at least one piece
RECURSIVE Split(_)
Split(s) ==
    LET q == FindFirst(s, 1, {"\n"})
    IN  IF q > Len(s) THEN <<s>>
        ELSE <<SubSeq(s, 1, q - 1)>> \o Split(SubSeq(s, q + 1, Len(s)))

\* '\n'.join(lines)
RECURSIVE Join(_)
Join(lines) ==
    IF Len(lines) = 0 THEN <<>>
    ELSE IF Len(lines) = 1 THEN lines[1]
    ELSE lines[1] \o NL \o Join(Tail(lines))

\* bool(line.strip()): the line holds a character that is not whitespace
Truthy(line) == \E i \in 1..Len(line) : line[i] \notin PyWhitespace

\* s.rstrip(chars)
RECURSIVE RStrip(_, _)
RStrip(s, chars) ==
    IF Len(s) > 0 /\ s[Len(s)] \in chars THEN RStrip(SubSeq(s, 1, Len(s) - 1), chars)
    ELSE s

\* '    ' + line if line.strip() else ''     (transpiler.py lines 210 and 281)
IndentLine(line) == IF Truthy(line) THEN <<" ", " ", " ", " ">> \o line ELSE <<>>

IndentLines(lines) == [i \in 1..Len(lines) |-> IndentLine(lines[i])]

\* def indent(code)
indent(code) == Join(IndentLines(Split(RStrip(code, {"\n"})))) \o NL

(***************************************************************************)
(* LEXER                                                                   *)
(***************************************************************************)

Letters == {"a", "b", "c", "d", "e", "f", "g", "h", "i", "j", "k", "l", "m",
            "n", "o", "p", "q", "r", "s", "t", "u", "v", "w", "x", "y", "z",
            "A", "B", "C", "D", "E", "F", "G", "H", "I", "J", "K", "L", "M",
            "N", "O", "P", "Q", "R", "S", "T", "U", "V", "W", "X", "Y", "Z",
            "_"}

Digits == {"0", "1", "2", "3", "4", "5", "6", "7", "8", "9"}

\* t_ignore = ' \t\r'
t_ignore == {" ", "\t", "\r"}

\* reserved = {...}: the words, spelled as character sequences, and their token types
reserved ==
    (<<"i", "n", "c", "l", "u", "d", "e">> :> "INCLUDE") @@
    (<<"i", "o", "s", "t", "r", "e", "a", "m">> :> "IOSTREAM") @@
    (<<"i", "n", "t">> :> "INT") @@
    (<<"f", "l", "o", "a", "t">> :> "FLOAT") @@
    (<<"s", "t", "r", "i", "n", "g">> :> "STRING") @@
    (<<"v", "o", "i", "d">> :> "VOID") @@
    (<<"c", "o", "u", "t">> :> "COUT") @@
    (<<"c", "i", "n">> :> "CIN") @@
    (<<"i", "f">> :> "IF") @@
    (<<"e", "l", "s", "e">> :> "ELSE") @@
    (<<"w", "h", "i", "l", "e">> :> "WHILE") @@
    (<<"f", "o", "r">> :> "FOR") @@
    (<<"r", "e", "t", "u", "r", "n">> :> "RETURN") @@
    (<<"u", "s", "i", "n", "g">> :> "USING") @@
    (<<"n", "a", "m", "e", "s", "p", "a", "c", "e">> :> "NAMESPACE") @@
    (<<"s", "t", "d">> :> "STD")

\* The token rules given as strings (t_PLUS ... t_GREATEREQUAL), in the order in
\* which ply tries them: after the function rules, longest regular expression
\* first ('\+' '\*' '\(' '\)' '\{' '\}' '<=' '>=' have two characters, the
\* others one), so '<=' and '>=' are tried before '<', '>' and '='.
strsym == <<
    [type |-> "PLUS", text |-> <<"+">>],
    [type |-> "TIMES", text |-> <<"*">>],
    [type |-> "LPAREN", text |-> <<"(">>],
    [type |-> "RPAREN", text |-> <<")">>],
    [type |-> "LBRACE", text |-> <<"{">>],
    [type |-> "RBRACE", text |-> <<"}">>],
    [type |-> "LESSEQUAL", text |-> <<"<", "=">>],
    [type |-> "GREATEREQUAL", text |-> <<">", "=">>],
    [type |-> "MINUS", text |-> <<"-">>],
    [type |-> "DIVIDE", text |-> <<"/">>],
    [type |-> "SEMICOLON", text |-> <<";">>],
    [type |-> "EQUALS", text |-> <<"=">>],
    [type |-> "COMMA", text |-> <<",">>],
    [type |-> "LESS", text |-> <<"<">>],
    [type |-> "GREATER", text |-> <<">">>] >>

\* s holds the characters of lit at position p
StartsWith(s, p, lit) ==
    /\ p + Len(lit) - 1 <= Len(s)
    /\ \A k \in 1..Len(lit) : s[p + k - 1] = lit[k]

\* r'<<' and r'>>'
LeftShiftLen(s, p) == IF StartsWith(s, p, <<"<", "<">>) THEN 2 ELSE 0
RightShiftLen(s, p) == IF StartsWith(s, p, <<">", ">">>) THEN 2 ELSE 0

\* r'[a-zA-Z_][a-zA-Z_0-9]*'
IdentifierLen(s, p) ==
    IF p <= Len(s) /\ s[p] \in Letters
    THEN FindFirstNot(s, p + 1, Letters \cup Digits) - p
    ELSE 0

\* r'\d+(\.\d+)?'
NumberLen(s, p) ==
    IF p <= Len(s) /\ s[p] \in Digits
    THEN LET q == FindFirstNot(s, p, Digits)
         IN  IF q + 1 <= Len(s) /\ s[q] = "." /\ s[q + 1] \in Digits
             THEN FindFirstNot(s, q + 1, Digits) - p
             ELSE q - p
    ELSE 0

\* r'"[^"]*"': [^"] also matches a line break
StringLiteralLen(s, p) ==
    IF p <= Len(s) /\ s[p] = "\""
    THEN LET q == FindFirst(s, p + 1, {"\""})
         IN  IF q <= Len(s) THEN q - p + 1 ELSE 0
    ELSE 0

\* r'\n+'
NewlineLen(s, p) == FindFirstNot(s, p, {"\n"}) - p

\* the first string rule, in ply's order, that matches at p (0: none)
StrSymIndex(s, p) ==
    LET hits == {k \in 1..Len(strsym) : StartsWith(s, p, strsym[k].text)}
    IN  IF hits = {} THEN 0 ELSE CHOOSE k \in hits : \A j \in hits : k <= j

\* The master regular expression: the function rules in the order of their
\* definition (t_LEFTSHIFT, t_RIGHTSHIFT, t_IDENTIFIER, t_NUMBER,
\* t_STRING_LITERAL, t_newline), then the string rules; the first alternative
\* that matches wins.  "t_error" when none does.
LexRule(s, p) ==
    IF LeftShiftLen(s, p) > 0 THEN "t_LEFTSHIFT"
    ELSE IF RightShiftLen(s, p) > 0 THEN "t_RIGHTSHIFT"
    ELSE IF IdentifierLen(s, p) > 0 THEN "t_IDENTIFIER"
    ELSE IF NumberLen(s, p) > 0 THEN "t_NUMBER"
    ELSE IF StringLiteralLen(s, p) > 0 THEN "t_STRING_LITERAL"
    ELSE IF NewlineLen(s, p) > 0 THEN "t_newline"
    ELSE IF StrSymIndex(s, p) > 0 THEN "strsym"
    ELSE "t_error"

\* str(int(digits)): leading zeros go, one digit stays
StrInt(digits) ==
    LET q == FindFirstNot(digits, 1, {"0"})
    IN  IF q > Len(digits) THEN <<"0">> ELSE SubSeq(digits, q, Len(digits))

\* str(float(lexeme)) for a lexeme digits.digits of fewer than 16 digits whose
\* value is 0 or at least 0.0001 (Python prints those in positional notation):
\* the integer part as str(int) prints it, the fraction without trailing zeros,
\* one digit kept.
StrFloat(lexeme) ==
    LET dot  == FindFirst(lexeme, 1, {"."})
        frac == RStrip(SubSeq(lexeme, dot + 1, Len(lexeme)), {"0"})
    IN  StrInt(SubSeq(lexeme, 1, dot - 1)) \o <<".">> \o
        (IF frac = <<>> THEN <<"0">> ELSE frac)

\* t.value = float(t.value) if '.' in t.value else int(t.value); the value is
\* kept as the text str() gives for it, which is all the parser uses it for.
NumberValue(lexeme) ==
    IF \E i \in 1..Len(lexeme) : lexeme[i] = "." THEN StrFloat(lexeme)
    ELSE StrInt(lexeme)

\* a token: its type, its value and the position of its first character
Token(type, value, pos) == [type |-> type, value |-> value, lexpos |-> pos]

\* t_error skipping the character after the illegal one too
ErrorSkipTwo == 1 + 1

\* the number of characters t_error skips: t.lexer.skip(1)
ErrorSkip == 1

\* One step of lexer.token() at position p of s: the rule applied (a character
\* of t_ignore is skipped before the master regular expression is tried), the
\* token returned (type "": none) and the number of characters consumed.
Match(s, p) ==
    LET rule == IF s[p] \in t_ignore THEN "t_ignore" ELSE LexRule(s, p)
        lexeme(n) == SubSeq(s, p, p + n - 1)
    IN  CASE rule = "t_ignore" -> [rule |-> rule, type |-> "", value |-> <<>>, n |-> 1]
          [] rule = "t_LEFTSHIFT" ->
               [rule |-> rule, type |-> "LEFTSHIFT", value |-> lexeme(2), n |-> 2]
          [] rule = "t_RIGHTSHIFT" ->
               [rule |-> rule, type |-> "RIGHTSHIFT", value |-> lexeme(2), n |-> 2]
          [] rule = "t_IDENTIFIER" ->
               \* t.type = reserved.get(t.value, 'IDENTIFIER')
               LET n == IdentifierLen(s, p)
                   v == lexeme(n)
               IN  [rule |-> rule,
                    type |-> IF v \in DOMAIN reserved THEN reserved[v] ELSE "IDENTIFIER",
                    value |-> v, n |-> n]
          [] rule = "t_NUMBER" ->
               LET n == NumberLen(s, p)
               IN  [rule |-> rule, type |-> "NUMBER", value |-> NumberValue(lexeme(n)),
                    n |-> n]
          [] rule = "t_STRING_LITERAL" ->
               \* t.value = '"' + t.value[1:-1] + '"'
               LET n == StringLiteralLen(s, p)
                   v == lexeme(n)
               IN  [rule |-> rule, type |-> "STRING_LITERAL",
                    value |-> <<"\"">> \o SubSeq(v, 2, n - 1) \o <<"\"">>, n |-> n]
          [] rule = "t_newline" ->
               \* t.lexer.lineno += len(t.value): the line number only shows in messages
               [rule |-> rule, type |-> "", value |-> <<>>, n |-> NewlineLen(s, p)]
          [] rule = "strsym" ->
               LET r == strsym[StrSymIndex(s, p)]
               IN  [rule |-> rule, type |-> r.type, value |-> r.text, n |-> Len(r.text)]
          [] OTHER -> [rule |-> "t_error", type |-> "", value |-> <<>>, n |-> ErrorSkip]

\* all the tokens lexer.token() returns from position p of s on
RECURSIVE Tokenize(_, _)
Tokenize(s, p) ==
    IF p > Len(s) THEN <<>>
    ELSE LET m == Match(s, p)
         IN  (IF m.type = "" THEN <<>> ELSE <<Token(m.type, m.value, p)>>)
                 \o Tokenize(s, p + m.n)

(***************************************************************************)
(* PARSER: the text each p_ function synthesizes.  p is the sequence of    *)
(* the values of the production's right-hand side, p[1] the first (the     *)
(* source's len(p) counts p[0] too, so it is Len(p) + 1 here).             *)
(***************************************************************************)

\* the value of a declarator with no initializer: Python's None, which is no str
None == <<"<None>">>

\* def p_program(p)
p_program(p) == p[1]

\* def p_statements(p)
p_statements(p) == IF Len(p) = 1 THEN p[1] ELSE p[1] \o p[2]

\* def p_statement(p)
p_statement(p) == p[1]

\* def p_include_statement(p): "# C++ iostream included\n"
p_include_statement(p) ==
    <<"#", " ", "C", "+", "+", " ", "i", "o", "s", "t", "r", "e", "a", "m", " ",
      "i", "n", "c", "l", "u", "d", "e", "d", "\n">>

\* def p_using_namespace(p): "# using namespace std; (ignored in Python)\n"
p_using_namespace(p) ==
    <<"#", " ", "u", "s", "i", "n", "g", " ", "n", "a", "m", "e", "s", "p", "a",
      "c", "e", " ", "s", "t", "d", ";", " ", "(", "i", "g", "n", "o", "r", "e",
      "d", " ", "i", "n", " ", "P", "y", "t", "h", "o", "n", ")", "\n">>

\* f"{name} = None  # {p[1]} in C++"  or  f"{name} = {value}  # {p[1]} in C++"
DeclLine(d, type) ==
    d[1] \o <<" ", "=", " ">> \o
    (IF d[2] = None THEN <<"N", "o", "n", "e">> ELSE d[2]) \o
    <<" ", " ", "#", " ">> \o type \o <<" ", "i", "n", " ", "C", "+", "+">>

\* def p_declaration(p)
p_declaration(p) ==
    LET decls == [k \in 1..Len(p[2]) |-> DeclLine(p[2][k], p[1])]
    IN  Join(decls) \o NL

\* def p_declarator_list_single(p)
p_declarator_list_single(p) == <<p[1]>>

\* p_declarator_list_multi with the list built back to front
p_declarator_list_multi_reversed(p) == p[3] \o <<p[1]>>

\* def p_declarator_list_multi(p)
p_declarator_list_multi(p) == <<p[1]>> \o p[3]

\* def p_declarator(p)
p_declarator(p) == IF Len(p) = 1 THEN <<p[1], None>> ELSE <<p[1], p[3]>>

\* def p_type(p)
p_type(p) == p[1]

\* def p_assignment(p)
p_assignment(p) == p[1] \o <<" ", "=", " ">> \o p[3] \o NL

\* p_cout_statement that leaves the statement as the source has it
p_cout_statement_untranslated(p) == p[1] \o <<" ", "<", "<", " ">> \o p[3] \o NL

\* def p_cout_statement(p)
p_cout_statement(p) == <<"p", "r", "i", "n", "t", "(">> \o p[3] \o <<")", "\n">>

\* p_cout_args with the operands swapped
p_cout_args_swapped(p) == IF Len(p) = 1 THEN p[1] ELSE p[3] \o <<",", " ">> \o p[1]

\* def p_cout_args(p)
p_cout_args(p) == IF Len(p) = 1 THEN p[1] ELSE p[1] \o <<",", " ">> \o p[3]

\* def p_cin_statement(p)
p_cin_statement(p) == p[3]

\* def p_cin_args_single(p)
p_cin_args_single(p) == p[1] \o <<" ", "=", " ", "i", "n", "p", "u", "t", "(", ")", "\n">>

\* def p_cin_args_multi(p)
p_cin_args_multi(p) ==
    p[1] \o <<" ", "=", " ", "i", "n", "p", "u", "t", "(", ")", "\n">> \o p[3]

\* def p_if_statement(p)
p_if_statement(p) ==
    IF Len(p) = 5
    THEN <<"i", "f", " ">> \o p[3] \o <<":", "\n">> \o p[5]
    ELSE <<"i", "f", " ">> \o p[3] \o <<":", "\n">> \o p[5] \o
         <<"e", "l", "s", "e", ":", "\n">> \o p[7]

\* def p_while_statement(p)
p_while_statement(p) == <<"w", "h", "i", "l", "e", " ">> \o p[3] \o <<":", "\n">> \o p[5]

\* def p_for_statement(p)
p_for_statement(p) ==
    IF Len(p) = 9
    THEN p[3] \o <<"\n", "w", "h", "i", "l", "e", " ">> \o p[5] \o <<":", "\n">> \o
         indent(p[9]) \o indent(p[7]) \o NL
    ELSE p[3] \o <<"w", "h", "i", "l", "e", " ">> \o p[4] \o <<":", "\n">> \o
         indent(p[8]) \o indent(p[6]) \o NL

\* def p_compound_statement(p)
p_compound_statement(p) ==
    LET lines    == Split(p[2])
        indented == Join(IndentLines(lines))
    IN  RStrip(indented, PyWhitespace) \o NL

\* def p_function_definition(p)
p_function_definition(p) ==
    IF p[2] = <<"m", "a", "i", "n">>
    THEN <<"i", "f", " ", "_", "_", "n", "a", "m", "e", "_", "_", " ", "=", "=",
           " ", "\"", "_", "_", "m", "a", "i", "n", "_", "_", "\"", ":", "\n">> \o p[6]
    ELSE <<"d", "e", "f", " ">> \o p[2] \o <<"(">> \o p[4] \o <<")", ":", "\n">> \o p[6]

\* def p_parameters_empty(p)
p_parameters_empty(p) == <<>>

\* def p_parameters_single(p)
p_parameters_single(p) == p[2]

\* def p_parameters_multi(p)
p_parameters_multi(p) == p[2] \o <<",", " ">> \o p[4]

\* def p_function_call(p)
p_function_call(p) == p[1] \o <<"(">> \o p[3] \o <<")", "\n">>

\* def p_arguments_empty(p)
p_arguments_empty(p) == <<>>

\* def p_arguments_single(p)
p_arguments_single(p) == p[1]

\* def p_arguments_multi(p)
p_arguments_multi(p) == p[1] \o <<",", " ">> \o p[3]

\* def p_return_statement(p)
p_return_statement(p) == <<"r", "e", "t", "u", "r", "n", " ">> \o p[2] \o NL

\* def p_expression(p): a token's value is held as the text str() gives for it
p_expression(p) ==
    IF Len(p) = 1 THEN p[1]
    ELSE IF p[1] = <<"(">> THEN <<"(">> \o p[2] \o <<")">>
    ELSE p[1] \o <<" ">> \o p[2] \o <<" ">> \o p[3]

(***************************************************************************)
(* The grammar.  ply builds an LALR(1) table from the productions in the   *)
(* docstrings; the only conflicts are the shift/reduce conflicts of the    *)
(* binary operators (no precedence is declared), which ply resolves by     *)
(* shifting.  The operators below follow the same productions with the     *)
(* lookahead the table uses and stop, like the table, at the first token   *)
(* that cannot continue the input read so far: they give the value of a    *)
(* symbol and the position after it, or the position of the token the      *)
(* parser finds in error (Len(toks) + 1: the end of the input).            *)
(***************************************************************************)

Ok(val, pos) == [ok |-> TRUE, val |-> val, pos |-> pos]
Err(pos) == [ok |-> FALSE, val |-> <<>>, pos |-> pos]

\* the type of the i-th token, "$end" after the last one
TokType(toks, i) == IF i <= Len(toks) THEN toks[i].type ELSE "$end"

\* type : INT | FLOAT | STRING | VOID
TypeTokens == {"INT", "FLOAT", "STRING", "VOID"}

\* the operators of  expression : expression OP expression
BinaryOps == {"PLUS", "MINUS", "TIMES", "DIVIDE",
              "LESS", "GREATER", "LESSEQUAL", "GREATEREQUAL"}

\* the tokens an expression starts with
ExpressionStart == {"IDENTIFIER", "NUMBER", "STRING_LITERAL", "LPAREN"}

\* the tokens a statement starts with
StatementStart ==
    {"INCLUDE", "USING", "COUT", "CIN", "IF", "WHILE", "FOR", "RETURN"}
        \cup TypeTokens \cup ExpressionStart

\* the symbols on the left of a production (the other symbols are tokens)
Nonterminals ==
    {"statements", "statement", "include_statement", "using_namespace",
     "declaration", "declarator_list", "declarator", "type", "assignment",
     "cout_statement", "cout_args", "cin_statement", "cin_args", "if_statement",
     "while_statement", "for_statement", "compound_statement",
     "function_definition", "parameters", "function_call", "arguments",
     "return_statement", "expression"}

\* The alternative of  statement  that the tokens at i start (the parser
\* decides it on the same tokens: a type and an identifier are a function
\* definition before LPAREN and a declaration otherwise; an identifier is an
\* assignment before EQUALS, a function call before LPAREN, and an
\* expression otherwise).  "error": no statement starts with toks[i].
StatementKind(toks, i) ==
    LET t == TokType(toks, i)
    IN  IF t = "INCLUDE" THEN "include_statement"
        ELSE IF t = "USING" THEN "using_namespace"
        ELSE IF t \in TypeTokens
        THEN IF TokType(toks, i + 1) = "IDENTIFIER" /\ TokType(toks, i + 2) = "LPAREN"
             THEN "function_definition" ELSE "declaration"
        ELSE IF t = "IDENTIFIER"
        THEN IF TokType(toks, i + 1) = "EQUALS" THEN "assignment"
             ELSE IF TokType(toks, i + 1) = "LPAREN" THEN "function_call"
             ELSE "expression"
        ELSE IF t \in ExpressionStart THEN "expression"
        ELSE IF t = "COUT" THEN "cout_statement"
        ELSE IF t = "CIN" THEN "cin_statement"
        ELSE IF t = "IF" THEN "if_statement"
        ELSE IF t = "WHILE" THEN "while_statement"
        ELSE IF t = "FOR" THEN "for_statement"
        ELSE IF t = "RETURN" THEN "return_statement"
        ELSE "error"

\* no production of the symbol starts with the lookahead
NoProduction == <<"$error">>

\* The right-hand side the parser follows for nonterminal sym on the tokens at
\* i.  Of two productions where one continues the other (declarator,
\* declarator_list, cin_args, if_statement, parameters, arguments) it is the
\* shorter: Longer gives the rest.  Of a left-recursive symbol (statements,
\* cout_args, expression) it is the production that is not: Left gives the
\* rest of the one that is.
Rhs(toks, i, sym) ==
    LET t == TokType(toks, i)
    IN  CASE sym = "statements" -> <<"statement">>
          [] sym = "statement" ->
               IF StatementKind(toks, i) = "error" THEN NoProduction
               ELSE IF StatementKind(toks, i) = "expression"
               THEN <<"expression", "SEMICOLON">>
               ELSE <<StatementKind(toks, i)>>
          [] sym = "include_statement" -> <<"INCLUDE", "LESS", "IOSTREAM", "GREATER">>
          [] sym = "using_namespace" -> <<"USING", "NAMESPACE", "STD", "SEMICOLON">>
          [] sym = "declaration" -> <<"type", "declarator_list", "SEMICOLON">>
          [] sym = "declarator_list" -> <<"declarator">>
          [] sym = "declarator" -> <<"IDENTIFIER">>
          [] sym = "type" -> IF t \in TypeTokens THEN <<t>> ELSE NoProduction
          [] sym = "assignment" -> <<"IDENTIFIER", "EQUALS", "expression", "SEMICOLON">>
          [] sym = "cout_statement" -> <<"COUT", "LEFTSHIFT", "cout_args", "SEMICOLON">>
          [] sym = "cout_args" -> <<"expression">>
          [] sym = "cin_statement" -> <<"CIN", "RIGHTSHIFT", "cin_args", "SEMICOLON">>
          [] sym = "cin_args" -> <<"IDENTIFIER">>
          [] sym = "if_statement" ->
               <<"IF", "LPAREN", "expression", "RPAREN", "compound_statement">>
          [] sym = "while_statement" ->
               <<"WHILE", "LPAREN", "expression", "RPAREN", "compound_statement">>
          [] sym = "for_statement" ->
               IF TokType(toks, i + 2) \in TypeTokens
               THEN <<"FOR", "LPAREN", "declaration", "expression", "SEMICOLON",
                      "expression", "RPAREN", "compound_statement">>
               ELSE <<"FOR", "LPAREN", "expression", "SEMICOLON", "expression",
                      "SEMICOLON", "expression", "RPAREN", "compound_statement">>
          [] sym = "compound_statement" -> <<"LBRACE", "statements", "RBRACE">>
          [] sym = "function_definition" ->
               <<"type", "IDENTIFIER", "LPAREN", "parameters", "RPAREN",
                 "compound_statement">>
          [] sym = "parameters" ->
               IF t \in TypeTokens THEN <<"type", "IDENTIFIER">> ELSE <<>>
          [] sym = "function_call" ->
               <<"IDENTIFIER", "LPAREN", "arguments", "RPAREN", "SEMICOLON">>
          [] sym = "arguments" -> IF t \in ExpressionStart THEN <<"expression">> ELSE <<>>
          [] sym = "return_statement" -> <<"RETURN", "expression", "SEMICOLON">>
          [] sym = "expression" ->
               IF t \in {"IDENTIFIER", "NUMBER", "STRING_LITERAL"} THEN <<t>>
               ELSE IF t = "LPAREN" THEN <<"LPAREN", "expression", "RPAREN">>
               ELSE NoProduction

\* The symbols the parser shifts on, with lookahead t, after the n symbols of
\* the shorter production of sym: the rest of the longer production, or <<>>
\* when t does not start it (the parser reduces the shorter one).
Longer(sym, n, t) ==
    CASE sym = "declarator_list" /\ n = 1 /\ t = "COMMA" -> <<"COMMA", "declarator_list">>
      [] sym = "declarator" /\ n = 1 /\ t = "EQUALS" -> <<"EQUALS", "expression">>
      [] sym = "cin_args" /\ n = 1 /\ t = "RIGHTSHIFT" -> <<"RIGHTSHIFT", "cin_args">>
      [] sym = "if_statement" /\ n = 5 /\ t = "ELSE" -> <<"ELSE", "compound_statement">>
      [] sym = "parameters" /\ n = 2 /\ t = "COMMA" -> <<"COMMA", "parameters">>
      [] sym = "arguments" /\ n = 1 /\ t = "COMMA" -> <<"COMMA", "arguments">>
      [] OTHER -> <<>>

\* The symbols the parser shifts on, with lookahead t, after it has reduced a
\* left-recursive sym: the rest of  statements : statements statement,
\* cout_args : cout_args LEFTSHIFT expression  or  expression : expression OP
\* expression  (the shift/reduce conflict, resolved as shift); <<>> when t does
\* not continue sym.
Left(sym, t) ==
    CASE sym = "statements" /\ t \in StatementStart -> <<"statement">>
      [] sym = "cout_args" /\ t = "LEFTSHIFT" -> <<"LEFTSHIFT", "expression">>
      [] sym = "expression" /\ t \in BinaryOps -> <<t, "expression">>
      [] OTHER -> <<>>

\* p[0] as the p_ function of the production  sym : p[1] ... p[n]  sets it
Reduce(sym, p) ==
    CASE sym = "statements" -> p_statements(p)
      [] sym = "statement" -> p_statement(p)
      [] sym = "include_statement" -> p_include_statement(p)
      [] sym = "using_namespace" -> p_using_namespace(p)
      [] sym = "declaration" -> p_declaration(p)
      [] sym = "declarator_list" ->
           IF Len(p) = 1 THEN p_declarator_list_single(p) ELSE p_declarator_list_multi(p)
      [] sym = "declarator" -> p_declarator(p)
      [] sym = "type" -> p_type(p)
      [] sym = "assignment" -> p_assignment(p)
      [] sym = "cout_statement" -> p_cout_statement(p)
      [] sym = "cout_args" -> p_cout_args(p)
      [] sym = "cin_statement" -> p_cin_statement(p)
      [] sym = "cin_args" ->
           IF Len(p) = 1 THEN p_cin_args_single(p) ELSE p_cin_args_multi(p)
      [] sym = "if_statement" -> p_if_statement(p)
      [] sym = "while_statement" -> p_while_statement(p)
      [] sym = "for_statement" -> p_for_statement(p)
      [] sym = "compound_statement" -> p_compound_statement(p)
      [] sym = "function_definition" -> p_function_definition(p)
      [] sym = "parameters" ->
           IF Len(p) = 0 THEN p_parameters_empty(p)
           ELSE IF Len(p) = 2 THEN p_parameters_single(p)
           ELSE p_parameters_multi(p)
      [] sym = "function_call" -> p_function_call(p)
      [] sym = "arguments" ->
           IF Len(p) = 0 THEN p_arguments_empty(p)
           ELSE IF Len(p) = 1 THEN p_arguments_single(p)
           ELSE p_arguments_multi(p)
      [] sym = "return_statement" -> p_return_statement(p)
      [] sym = "expression" -> p_expression(p)

RECURSIVE ParseSymbol(_, _, _)
RECURSIVE ParseRhs(_, _, _, _)
RECURSIVE Goto(_, _, _, _)
RECURSIVE Reduced(_, _, _)

\* The parser on symbol sym at token i: a token is shifted, a nonterminal is
\* the production Rhs chooses, followed and reduced.
ParseSymbol(toks, i, sym) ==
    IF sym \notin Nonterminals
    THEN IF TokType(toks, i) = sym THEN Ok(toks[i].value, i + 1) ELSE Err(i)
    ELSE IF Rhs(toks, i, sym) = NoProduction THEN Err(i)
    ELSE Reduced(toks, sym, ParseRhs(toks, i, Rhs(toks, i, sym), <<>>))

\* The parser on the symbols rhs from token i on; p holds the values of the
\* symbols of the production before them.
ParseRhs(toks, i, rhs, p) ==
    IF rhs = <<>> THEN Ok(p, i)
    ELSE Goto(toks, Tail(rhs), p, ParseSymbol(toks, i, Head(rhs)))

\* r is the first symbol after p: on to the symbols rest
Goto(toks, rest, p, r) ==
    IF r.ok THEN ParseRhs(toks, r.pos, rest, Append(p, r.val)) ELSE r

\* r holds the values p[1] ... p[n] of a right-hand side of sym and the
\* lookahead: the parser shifts on into the longer production, or reduces and
\* shifts on into the left-recursive one, or reduces and is done with sym.
Reduced(toks, sym, r) ==
    IF ~r.ok THEN r
    ELSE IF Longer(sym, Len(r.val), TokType(toks, r.pos)) # <<>>
    THEN Reduced(toks, sym,
                 ParseRhs(toks, r.pos, Longer(sym, Len(r.val), TokType(toks, r.pos)),
                          r.val))
    ELSE IF Left(sym, TokType(toks, r.pos)) # <<>>
    THEN Reduced(toks, sym,
                 ParseRhs(toks, r.pos, Left(sym, TokType(toks, r.pos)),
                          <<Reduce(sym, r.val)>>))
    ELSE Ok(Reduce(sym, r.val), r.pos)

\* statement : include_statement | using_namespace | declaration | assignment
\*           | cout_statement | cin_statement | if_statement | while_statement
\*           | for_statement | function_definition | function_call
\*           | return_statement | expression SEMICOLON
ParseStatement(toks, i) == ParseSymbol(toks, i, "statement")


(***************************************************************************)
(* parser.parse and convert_cpp_to_python as a function of the whole input *)
(***************************************************************************)

\* "# Unable to convert C++ code."
Unable ==
    <<"#", " ", "U", "n", "a", "b", "l", "e", " ", "t", "o", " ", "c", "o", "n",
      "v", "e", "r", "t", " ", "C", "+", "+", " ", "c", "o", "d", "e", ".">>

\* parser.parse(): stack is empty or holds the  statements  reduced so far, i
\* is the lookahead.  No production has an  error  symbol, so at a token in
\* error ply pops the whole stack, drops the token and starts again in the
\* initial state with the next one; at $end in error it returns None.
RECURSIVE yacc_parse(_, _, _)
RECURSIVE yacc_goto(_, _, _)

yacc_parse(toks, stack, i) ==
    IF i > Len(toks) /\ stack # <<>> THEN p_program(<<stack[1]>>)
    ELSE yacc_goto(toks, stack, ParseStatement(toks, i))

\* r is the statement at the lookahead, or the token in error
yacc_goto(toks, stack, r) ==
    IF r.ok
    THEN yacc_parse(toks,
                    IF stack = <<>> THEN <<p_statements(<<r.val>>)>>
                    ELSE <<p_statements(<<stack[1], r.val>>)>>,
                    r.pos)
    ELSE IF r.pos > Len(toks) THEN None
    ELSE yacc_parse(toks, <<>>, r.pos + 1)

\* return result if result else "# Unable to convert C++ code."
\* (None and the empty str are false; no p_ function and no token rule raises,
\* so the except branch is never taken)
ResultOrUnable(result) == IF result = None \/ result = <<>> THEN Unable ELSE result

\* def convert_cpp_to_python(cpp_code)
convert_cpp_to_python(code) == ResultOrUnable(yacc_parse(Tokenize(code, 1), <<>>, 1))


(***************************************************************************)
(* The texts posted to the form: request.form['cpp_code']                  *)
(***************************************************************************)

\* the longest list of top-level statements posted
MaxStatements == 2
\* the most declarators of a declaration posted
MaxDeclarators == 3
\* the most operands of a cout statement posted
MaxOperands == 3
\* the deepest nesting of compound statements posted
MaxDepth == 2

\* the sequences of 1 to n elements of set
SeqsUpTo(set, n) == UNION {[1..k -> set] : k \in 1..n}

\* the texts of seq one after the other, sep before each if lead, between them if not
RECURSIVE Concat(_, _, _)
Concat(seq, sep, lead) ==
    IF seq = <<>> THEN <<>>
    ELSE (IF lead THEN sep ELSE <<>>) \o Head(seq) \o
         (IF Len(seq) > 1 /\ ~lead THEN sep ELSE <<>>) \o Concat(Tail(seq), sep, lead)

\* declarators:  x   y=(a+1)*2   s="a<line break>b"
DeclaratorTexts ==
    { <<"x">>, <<"y", "=", "(", "a", "+", "1", ")", "*", "2">>,
      <<"s", "=", "\"", "a", "\n", "b", "\"">> }

\* types:  int   string
TypeTexts == { <<"i", "n", "t">>, <<"s", "t", "r", "i", "n", "g">> }

\* type d1,d2,...;
DeclarationPrograms ==
    { t \o <<" ">> \o Concat(ds, <<",">>, FALSE) \o <<";">> :
        t \in TypeTexts, ds \in SeqsUpTo(DeclaratorTexts, MaxDeclarators) }

\* operands of cout:  a   a<b+1   "{<<}"   "p<line break>q"
OperandTexts ==
    { <<"a">>, <<"a", "<", "b", "+", "1">>, <<"\"", "{", "<", "<", "}", "\"">>,
      <<"\"", "p", "\n", "q", "\"">> }

\* cout<<e1<<e2...;
CoutPrograms ==
    { <<"c", "o", "u", "t">> \o Concat(es, <<"<", "<">>, TRUE) \o <<";">> :
        es \in SeqsUpTo(OperandTexts, MaxOperands) }

\* #include <iostream><line break>
IncludeText ==
    <<"#", "i", "n", "c", "l", "u", "d", "e", " ", "<", "i", "o", "s", "t", "r",
      "e", "a", "m", ">", "\n">>

\* int *p;    (a pointer declaration: not in the grammar)
PointerText == <<"i", "n", "t", " ", "*", "p", ";">>

\* // c<line break>
CommentText == <<"/", "/", " ", "c", "\n">>

\* "y;    (a string literal that is never closed)
UnterminatedText == <<"\"", "y", ";">>

\* a+b;    (a bare expression statement)
BareExpressionText == <<"a", "+", "b", ";">>

\* x = 1;
AssignmentText == <<"x", " ", "=", " ", "1", ";">>

\* the statements the lists are made of
StatementTexts ==
    { IncludeText, PointerText, CommentText, UnterminatedText, BareExpressionText,
      AssignmentText,
      \* int x=5;
      <<"i", "n", "t", " ", "x", "=", "5", ";">> }

ListPrograms ==
    { Concat(ss, <<>>, FALSE) : ss \in SeqsUpTo(StatementTexts, MaxStatements) }

\* one statement of each of the other alternatives
SinglePrograms ==
    { \* using namespace std;
      <<"u", "s", "i", "n", "g", " ", "n", "a", "m", "e", "s", "p", "a", "c", "e",
        " ", "s", "t", "d", ";">>,
      \* cin>>a>>b;
      <<"c", "i", "n", ">", ">", "a", ">", ">", "b", ";">>,
      \* f(a,1);
      <<"f", "(", "a", ",", "1", ")", ";">>,
      \* return (a-1)*2/3.0;
      <<"r", "e", "t", "u", "r", "n", " ", "(", "a", "-", "1", ")", "*", "2", "/",
        "3", ".", "0", ";">>,
      \* while(a<=b){a=a+1;}
      <<"w", "h", "i", "l", "e", "(", "a", "<", "=", "b", ")", "{", "a", "=", "a",
        "+", "1", ";", "}">> }

\* what goes before and after the statements of a block
Wrappers ==
    { \* if(a>b){ ... }
      [open |-> <<"i", "f", "(", "a", ">", "b", ")", "{">>, close |-> <<"}">>],
      \* if(a){ ... }else{b=2;}
      [open |-> <<"i", "f", "(", "a", ")", "{">>,
       close |-> <<"}", "e", "l", "s", "e", "{", "b", "=", "2", ";", "}">>],
      \* if(a){b=2;}else{ ... }
      [open |-> <<"i", "f", "(", "a", ")", "{", "b", "=", "2", ";", "}", "e", "l",
                  "s", "e", "{">>, close |-> <<"}">>],
      \* while(a<b){ ... }
      [open |-> <<"w", "h", "i", "l", "e", "(", "a", "<", "b", ")", "{">>,
       close |-> <<"}">>],
      \* void f(int a){ ... }
      [open |-> <<"v", "o", "i", "d", " ", "f", "(", "i", "n", "t", " ", "a", ")",
                  "{">>, close |-> <<"}">>],
      \* int main(){ ... }
      [open |-> <<"i", "n", "t", " ", "m", "a", "i", "n", "(", ")", "{">>,
       close |-> <<"}">>] }

\* the statements of the innermost block:  c=1;   a;b;   cout<<c;<tab>d;
BodyTexts ==
    { <<"c", "=", "1", ";">>, <<"a", ";", "b", ";">>,
      <<"c", "o", "u", "t", "<", "<", "c", ";", "\t", "d", ";">> }

\* body inside the blocks of ws, ws[1] the outermost
RECURSIVE Nest(_, _)
Nest(ws, body) ==
    IF ws = <<>> THEN body
    ELSE Head(ws).open \o Nest(Tail(ws), body) \o Head(ws).close

NestPrograms ==
    { Nest(ws, b) : ws \in SeqsUpTo(Wrappers, MaxDepth), b \in BodyTexts }

\* for (i=0; i<5; i=i+1) {
ForAssignmentHead ==
    <<"f", "o", "r", " ", "(", "i", "=", "0", ";", " ", "i", "<", "5", ";", " ",
      "i", "=", "i", "+", "1", ")", " ", "{">>

ForHeads ==
    { ForAssignmentHead,
      \* for (i; i<5; i+1) {
      <<"f", "o", "r", " ", "(", "i", ";", " ", "i", "<", "5", ";", " ", "i", "+",
        "1", ")", " ", "{">>,
      \* for (int i=0; i<5; i+1) {
      <<"f", "o", "r", " ", "(", "i", "n", "t", " ", "i", "=", "0", ";", " ", "i",
        "<", "5", ";", " ", "i", "+", "1", ")", " ", "{">> }

\*  cout << i; }
CoutBody == <<" ", "c", "o", "u", "t", " ", "<", "<", " ", "i", ";", " ", "}">>

ForPrograms ==
    { h \o CoutBody : h \in ForHeads } \cup { h \o b \o <<"}">> : h \in ForHeads, b \in BodyTexts }

Programs ==
    DeclarationPrograms \cup CoutPrograms \cup ListPrograms \cup SinglePrograms
        \cup NestPrograms \cup ForPrograms

(***************************************************************************)
(* STATE                                                                   *)
(***************************************************************************)

VARIABLES
    pc,          \* "idle": no request yet; "lex", "parse": inside
                 \* convert_cpp_to_python; "done": the response is rendered
    cpp_code,    \* index(): the text of the form
    python_code, \* index(): the text shown as the translation
    lexpos,      \* the lexer's position in cpp_code (1-based)
    toks,        \* the tokens the lexer has returned so far
    tokpos,      \* the parser's lookahead: the next token it has not shifted
    symstack,    \* the parser's stack above $end between two top-level
                 \* statements: empty, or the one  statements  reduced so far
    errorcount,  \* ply's count of shifts to go before p_error is called again
    log,         \* the kinds of message printed by t_error and p_error
    reduced      \* the top-level statement reduced last: its alternative,
                 \* its tokens (from..to) and its text

vars == <<pc, cpp_code, python_code, lexpos, toks, tokpos, symstack, errorcount,
          log, reduced>>

NoStatement == [kind |-> "none", from |-> 0, to |-> 0, text |-> <<>>]

Init ==
    /\ pc = "idle"
    /\ cpp_code = <<>>
    /\ python_code = <<>>
    /\ lexpos = 1
    /\ toks = <<>>
    /\ tokpos = 1
    /\ symstack = <<>>
    /\ errorcount = 0
    /\ log = {}
    /\ reduced = NoStatement

(***************************************************************************)
(* LEXER ACTIONS: one step of lexer.token() each                           *)
(***************************************************************************)

Lexing == pc = "lex" /\ lexpos <= Len(cpp_code)

\* the step lexer.token() takes at lexpos
Here == Match(cpp_code, lexpos)

\* the lexer returns the token matched
Emit(m) ==
    /\ toks' = Append(toks, Token(m.type, m.value, lexpos))
    /\ lexpos' = lexpos + m.n
    /\ UNCHANGED <<pc, cpp_code, python_code, tokpos, symstack, errorcount, log, reduced>>

\* the lexer goes on and returns no token
Skip(m) ==
    /\ lexpos' = lexpos + m.n
    /\ UNCHANGED <<pc, cpp_code, python_code, toks, tokpos, symstack, errorcount, reduced>>

ignore == Lexing /\ Here.rule = "t_ignore" /\ Skip(Here) /\ UNCHANGED log

t_LEFTSHIFT == Lexing /\ Here.rule = "t_LEFTSHIFT" /\ Emit(Here)

t_RIGHTSHIFT == Lexing /\ Here.rule = "t_RIGHTSHIFT" /\ Emit(Here)

t_IDENTIFIER == Lexing /\ Here.rule = "t_IDENTIFIER" /\ Emit(Here)

t_NUMBER == Lexing /\ Here.rule = "t_NUMBER" /\ Emit(Here)

t_STRING_LITERAL == Lexing /\ Here.rule = "t_STRING_LITERAL" /\ Emit(Here)

t_newline == Lexing /\ Here.rule = "t_newline" /\ Skip(Here) /\ UNCHANGED log

\* t_PLUS ... t_GREATEREQUAL
t_strsym == Lexing /\ Here.rule = "strsym" /\ Emit(Here)

\* print(f"Illegal character ..."); t.lexer.skip(1)
t_error ==
    /\ Lexing /\ Here.rule = "t_error"
    /\ Skip(Here)
    /\ log' = log \cup {"Illegal character"}

\* the input is used up: lexer.token() returns None from now on, which the
\* parser reads as $end
lexer_eof ==
    /\ pc = "lex" /\ lexpos > Len(cpp_code)
    /\ pc' = "parse"
    /\ UNCHANGED <<cpp_code, python_code, lexpos, toks, tokpos, symstack, errorcount,
                   log, reduced>>

(***************************************************************************)
(* PARSER ACTIONS: parser.parse(), one top-level statement per step        *)
(***************************************************************************)

Parsing == pc = "parse"

Max(a, b) == IF a >= b THEN a ELSE b

\* errorcount after the parser has shifted n tokens: one less per shift, never
\* below 0
AfterShifts(n) == Max(0, errorcount - n)

\* the statement at the lookahead, or the token in error
StatementHere == ParseStatement(toks, tokpos)

\* The parser shifts the tokens of one statement and reduces it (r), then
\* reduces  statements : statement  or  statements : statements statement.
Shift(kind, r) ==
    /\ r.ok
    /\ symstack' = IF symstack = <<>> THEN <<p_statements(<<r.val>>)>>
                   ELSE <<p_statements(<<symstack[1], r.val>>)>>
    /\ tokpos' = r.pos
    /\ errorcount' = AfterShifts(r.pos - tokpos)
    /\ reduced' = [kind |-> kind, from |-> tokpos, to |-> r.pos - 1, text |-> r.val]
    /\ UNCHANGED <<pc, cpp_code, python_code, lexpos, toks, log>>

\* a top-level statement of alternative kind is at the lookahead
At(kind) == Parsing /\ StatementKind(toks, tokpos) = kind

include_statement == At("include_statement") /\ Shift("include_statement", StatementHere)

using_namespace == At("using_namespace") /\ Shift("using_namespace", StatementHere)

declaration == At("declaration") /\ Shift("declaration", StatementHere)

assignment == At("assignment") /\ Shift("assignment", StatementHere)

cout_statement == At("cout_statement") /\ Shift("cout_statement", StatementHere)

cin_statement == At("cin_statement") /\ Shift("cin_statement", StatementHere)

if_statement == At("if_statement") /\ Shift("if_statement", StatementHere)

while_statement == At("while_statement") /\ Shift("while_statement", StatementHere)

for_statement == At("for_statement") /\ Shift("for_statement", StatementHere)

function_definition == At("function_definition") /\ Shift("function_definition", StatementHere)

function_call == At("function_call") /\ Shift("function_call", StatementHere)

return_statement == At("return_statement") /\ Shift("return_statement", StatementHere)

\* statement : expression SEMICOLON
expression_statement == At("expression") /\ Shift("expression", StatementHere)

\* the parser has no action for token r.pos, or for $end
SyntaxError(r, atEnd, message) ==
    /\ ~r.ok
    /\ (r.pos > Len(toks)) = atEnd
    /\ log' = IF AfterShifts(r.pos - tokpos) = 0 THEN log \cup {message} ELSE log
    /\ tokpos' = IF atEnd THEN tokpos ELSE r.pos + 1

\* A token the parser has no action for: p_error(p) prints its message if
\* errorcount is 0, errorcount becomes 3 (ply's error_count), and, no
\* production having an  error  symbol, the whole stack is popped, the token
\* is dropped and the parse starts again with the next token.
p_error_token ==
    /\ Parsing
    /\ SyntaxError(StatementHere, FALSE, "Syntax error")
    /\ errorcount' = 3
    /\ symstack' = <<>>
    /\ reduced' = NoStatement
    /\ UNCHANGED <<pc, cpp_code, python_code, lexpos, toks>>

\* $end where the parser has no action for it: p_error(None) prints "Syntax
\* error at EOF" if errorcount is 0 and parser.parse() returns None, for which
\* convert_cpp_to_python returns "# Unable to convert C++ code."; index()
\* renders it.
p_error_eof ==
    /\ Parsing
    /\ ~(tokpos > Len(toks) /\ symstack # <<>>)
    /\ SyntaxError(StatementHere, TRUE, "Syntax error at EOF")
    /\ python_code' = ResultOrUnable(None)
    /\ pc' = "done"
    /\ UNCHANGED <<cpp_code, lexpos, toks, symstack, errorcount, reduced>>

\* $end after at least one statement: program : statements  is reduced and
\* accepted, convert_cpp_to_python returns its text and index() renders it.
accept ==
    /\ Parsing
    /\ tokpos > Len(toks) /\ symstack # <<>>
    /\ python_code' = ResultOrUnable(p_program(<<symstack[1]>>))
    /\ pc' = "done"
    /\ UNCHANGED <<cpp_code, lexpos, toks, tokpos, symstack, errorcount, log, reduced>>

(***************************************************************************)
(* app.py                                                                  *)
(***************************************************************************)

\* index(), request.method == 'POST': cpp_code = request.form['cpp_code'] and
\* convert_cpp_to_python(cpp_code) starts with a lexer and a parser of its own.
index ==
    /\ pc = "idle"
    /\ \E code \in Programs :
           cpp_code' = code
    /\ pc' = "lex"
    /\ UNCHANGED <<python_code, lexpos, toks, tokpos, symstack, errorcount, log, reduced>>

Next ==
    \/ index
    \/ ignore \/ t_LEFTSHIFT \/ t_RIGHTSHIFT \/ t_IDENTIFIER \/ t_NUMBER
    \/ t_STRING_LITERAL \/ t_newline \/ t_strsym \/ t_error \/ lexer_eof
    \/ include_statement \/ using_namespace \/ declaration \/ assignment
    \/ cout_statement \/ cin_statement \/ if_statement \/ while_statement
    \/ for_statement \/ function_definition \/ function_call \/ return_statement
    \/ expression_statement
    \/ p_error_token \/ p_error_eof \/ accept

Spec == Init /\ [][Next]_vars

(***************************************************************************)
(* PROPERTIES                                                              *)
(***************************************************************************)

\* the number of line breaks in s
LineBreaks(s) == Cardinality({i \in DOMAIN s : s[i] = "\n"})

\* the number of blanks line starts with
LeadingSpaces(line) == FindFirstNot(line, 1, {" "}) - 1

\* sub occurs in s
Contains(s, sub) == \E q \in 1..Len(s) : StartsWith(s, q, sub)

\* the lines of text: the pieces between its line breaks, without the empty
\* piece after a line break that ends the text
OutputLines(text) ==
    IF text # <<>> /\ text[Len(text)] = "\n"
    THEN Split(SubSeq(text, 1, Len(text) - 1))
    ELSE Split(text)

\* the request is answered and the parser met no syntax error: the grammar
\* accepted the tokens
Accepted == pc = "done" /\ log \cap {"Syntax error", "Syntax error at EOF"} = {}

\* the tokens of the top-level statement reduced last
ReducedTokens == SubSeq(toks, reduced.from, reduced.to)

\* a string literal among the tokens ts holds a line break
LineBreakInLiteral(ts) ==
    \E k \in DOMAIN ts : ts[k].type = "STRING_LITERAL" /\ LineBreaks(ts[k].value) > 0

\* the tokens ts cut at the tokens of type sep: the pieces between them
RECURSIVE SplitTokens(_, _)
SplitTokens(ts, sep) ==
    LET hits == {k \in DOMAIN ts : ts[k].type = sep}
        q    == IF hits = {} THEN Len(ts) + 1 ELSE CHOOSE k \in hits : \A j \in hits : k <= j
    IN  IF hits = {} THEN <<ts>>
        ELSE <<SubSeq(ts, 1, q - 1)>> \o SplitTokens(SubSeq(ts, q + 1, Len(ts)), sep)

\* The text of an expression read off its tokens: their values in source
\* order, one blank between two of them except after "(" and before ")".
RECURSIVE ExprText(_)
ExprText(ts) ==
    IF ts = <<>> THEN <<>>
    ELSE IF Len(ts) = 1 THEN ts[1].value
    ELSE ts[1].value \o
         (IF ts[1].type = "LPAREN" \/ ts[2].type = "RPAREN" THEN <<>> ELSE <<" ">>) \o
         ExprText(Tail(ts))

----------------------------------------------------------------------------
\* C1 (as claimed): when the parser meets a token it has no action for, the
\* translation is abandoned: the value returned holds no translated statement,
\* it is the diagnostic "# Unable to convert C++ code.".
C1_SyntaxErrorAbandons ==
    pc = "done" /\ "Syntax error" \in log => python_code = Unable

----------------------------------------------------------------------------
\* C2 (as claimed): for (i=0; i<5; i=i+1) { cout << i; } is accepted and
\* translated to  i = 0 / while i < 5: / print(i) / i = i + 1, the last two
\* one level inside the loop.
C2_ForWithAssignments ==
    pc = "done" /\ cpp_code = ForAssignmentHead \o CoutBody =>
        python_code =
            <<"i", " ", "=", " ", "0", "\n",
              "w", "h", "i", "l", "e", " ", "i", " ", "<", " ", "5", ":", "\n",
              " ", " ", " ", " ", "p", "r", "i", "n", "t", "(", "i", ")", "\n",
              " ", " ", " ", " ", "i", " ", "=", " ", "i", " ", "+", " ", "1", "\n">>

----------------------------------------------------------------------------
\* the line  while <cond>:  of the text of a for statement
WhileLine(lines) ==
    CHOOSE k \in DOMAIN lines :
        /\ StartsWith(lines[k], 1, <<"w", "h", "i", "l", "e", " ">>)
        /\ \A j \in 1..(k - 1) : ~StartsWith(lines[j], 1, <<"w", "h", "i", "l", "e", " ">>)

\* C3 (as claimed): in the text of a for statement whose body holds no nested
\* block, every line of the body and the step line are exactly one level (four
\* blanks) inside the  while  line, which starts at the left margin here.
C3_ForBodyOneLevel ==
    /\ reduced.kind = "for_statement"
    /\ Cardinality({k \in DOMAIN ReducedTokens : ReducedTokens[k].type = "LBRACE"}) = 1
    => LET lines == OutputLines(reduced.text)
       IN  \A k \in (WhileLine(lines) + 1)..Len(lines) :
               Truthy(lines[k]) => LeadingSpaces(lines[k]) = 4

----------------------------------------------------------------------------
\* text holds one of  <<  >>  {  }
HasSourceToken(text) ==
    \/ Contains(text, <<"<", "<">>) \/ Contains(text, <<">", ">">>)
    \/ Contains(text, <<"{">>) \/ Contains(text, <<"}">>)

\* text with what is between each pair of double quotes taken out (the quotes
\* stay)
RECURSIVE OutsideLiterals(_)
OutsideLiterals(text) ==
    LET open  == FindFirst(text, 1, {"\""})
        close == FindFirst(text, open + 1, {"\""})
    IN  IF close > Len(text) THEN text
        ELSE SubSeq(text, 1, open) \o <<"\"">> \o
             OutsideLiterals(SubSeq(text, close + 1, Len(text)))

----------------------------------------------------------------------------
\* position q of s is inside a string literal the lexer has returned
InLiteral(q) ==
    \E k \in DOMAIN toks :
        /\ toks[k].type = "STRING_LITERAL"
        /\ toks[k].lexpos < q /\ q < toks[k].lexpos + Len(toks[k].value) - 1

\* position q of the input is in a line comment: between a  //  that is not in
\* a string literal and the end of its line
InLineComment(q) ==
    \E c \in 1..q :
        /\ StartsWith(cpp_code, c, <<"/", "/">>)
        /\ ~InLiteral(c)
        /\ \A k \in c..q : cpp_code[k] # "\n"

\* C5 (as claimed): the text of a line comment produces no token.
C5_CommentsProduceNoToken ==
    \A k \in DOMAIN toks : ~InLineComment(toks[k].lexpos)

----------------------------------------------------------------------------
\* C6 (as claimed): the text of every statement, of whichever alternative,
\* ends with a line break.
C6_StatementEndsWithLineBreak ==
    reduced.kind # "none" =>
        reduced.text # <<>> /\ reduced.text[Len(reduced.text)] = "\n"

----------------------------------------------------------------------------
\* s with every character the lexer finds illegal, from position q on,
\* replaced by a blank
RECURSIVE Blanked(_, _)
Blanked(s, q) ==
    IF q > Len(s) THEN s
    ELSE IF s[q] \notin t_ignore /\ LexRule(s, q) = "t_error"
    THEN Blanked([s EXCEPT ![q] = " "], q + 1)
    ELSE Blanked(s, q + Match(s, q).n)

\* C7 (as claimed): for an input with an unterminated string literal or another
\* character that matches no token rule, the value returned is a diagnostic,
\* not translated code.
C7_IllegalCharacterDiagnostic ==
    pc = "done" /\ "Illegal character" \in log => python_code = Unable

\* C7 (amended): the lexer goes past every character (so it ends), an illegal
\* one is reported and skipped by itself, and the value returned is the one
\* returned for the input with the illegal characters blanked: the tokens are
\* the same, and so is the translation or the diagnostic.
C7_IllegalCharacterSkipped ==
    /\ Lexing => Here.n >= 1
    /\ pc = "done" =>
           /\ toks = Tokenize(Blanked(cpp_code, 1), 1)
           /\ python_code = convert_cpp_to_python(Blanked(cpp_code, 1))

\* an input with an illegal character answered with translated code
C7_TranslatedAfterIllegalCharacter ==
    /\ pc = "done"
    /\ "Illegal character" \in log
    /\ python_code # Unable
    /\ Blanked(cpp_code, 1) # cpp_code

----------------------------------------------------------------------------
\* the declarators of the declaration reduced last, as tokens
Declarators ==
    SplitTokens(SubSeq(toks, reduced.from + 1, reduced.to - 1), "COMMA")

\* the line of declarator d (its tokens) of a declaration of the given type
DeclaratorLine(d, type) ==
    d[1].value \o <<" ", "=", " ">> \o
    (IF Len(d) = 1 THEN <<"N", "o", "n", "e">> ELSE ExprText(SubSeq(d, 3, Len(d)))) \o
    <<" ", " ", "#", " ">> \o type \o <<" ", "i", "n", " ", "C", "+", "+">>

\* the lines of the declaration reduced last
DeclaratorLines ==
    [k \in DOMAIN Declarators |-> DeclaratorLine(Declarators[k], toks[reduced.from].value)]

\* C8 (as claimed): a declaration of n declarators is translated to exactly n
\* lines, line i the one of the i-th declarator.
C8_DeclarationLines ==
    reduced.kind = "declaration" => OutputLines(reduced.text) = DeclaratorLines

\* C8 (amended): a declaration of n declarators is translated to n entries in
\* source order, entry i the one of the i-th declarator followed by a line
\* break; they are exactly n lines when no initializer holds a string literal
\* with a line break in it.
C8_DeclarationEntries ==
    reduced.kind = "declaration" =>
        /\ reduced.text = Concat([k \in DOMAIN DeclaratorLines |-> DeclaratorLines[k] \o NL],
                                 <<>>, FALSE)
        /\ ~LineBreakInLiteral(ReducedTokens) =>
               OutputLines(reduced.text) = DeclaratorLines

\* a declaration of three or more declarators, with and without initializer
C8_SeveralDeclarators ==
    /\ reduced.kind = "declaration"
    /\ Len(Declarators) >= 3
    /\ \E k \in DOMAIN Declarators : Len(Declarators[k]) = 1
    /\ \E k \in DOMAIN Declarators : Len(Declarators[k]) > 3
    /\ Declarators[1] # Declarators[Len(Declarators)]

----------------------------------------------------------------------------
\* the operands of the cout statement reduced last, as tokens
Operands ==
    SplitTokens(SubSeq(toks, reduced.from + 2, reduced.to - 1), "LEFTSHIFT")

\* print(e1, e2, ..., en) and a line break
PrintLine ==
    <<"p", "r", "i", "n", "t", "(">> \o
    Concat([k \in DOMAIN Operands |-> ExprText(Operands[k])], <<",", " ">>, FALSE) \o
    <<")", "\n">>

\* C9 (as claimed): cout << e1 << ... << en;  is translated to exactly one
\* line, print(e1, ..., en), one argument per operand in source order.
C9_CoutOneLine ==
    reduced.kind = "cout_statement" =>
        reduced.text = PrintLine /\ LineBreaks(reduced.text) = 1

\* C9 (amended): cout << e1 << ... << en;  is translated to print(e1, ..., en)
\* and a line break, one argument per operand in source order, also when an
\* operand uses  <  >  <=  >= ; it is exactly one line when no operand holds a
\* string literal with a line break in it.
C9_CoutPrint ==
    reduced.kind = "cout_statement" =>
        /\ reduced.text = PrintLine
        /\ ~LineBreakInLiteral(ReducedTokens) => LineBreaks(reduced.text) = 1

\* a cout statement of three or more operands, one of them a comparison
C9_SeveralOperands ==
    /\ reduced.kind = "cout_statement"
    /\ Len(Operands) >= 3
    /\ \E k \in DOMAIN Operands : \E j \in DOMAIN Operands[k] : Operands[k][j].type = "LESS"
    /\ Operands[1] # Operands[Len(Operands)]

----------------------------------------------------------------------------
\* The indentation the claim gives each line of the translation of the tokens
\* ts from i on, at depth d (the number of compound statements around token
\* i).  in = "start": token i starts a statement; "declaration", "other": it
\* is inside one.  A statement is one line, a declaration one line per
\* declarator, a cin statement one line per identifier, else  a line of its
\* own; each with 4 * d blanks.
RECURSIVE Indentation(_, _, _, _)
Indentation(ts, i, d, in) ==
    IF i > Len(ts) THEN <<>>
    ELSE LET t == ts[i].type
         IN  IF t = "LBRACE" THEN Indentation(ts, i + 1, d + 1, "start")
             ELSE IF t = "RBRACE" THEN Indentation(ts, i + 1, d - 1, "start")
             ELSE IF t = "SEMICOLON" THEN Indentation(ts, i + 1, d, "start")
             ELSE IF t = "GREATER" /\ TokType(ts, i - 1) = "IOSTREAM"
             THEN Indentation(ts, i + 1, d, "start")
             ELSE IF t = "ELSE" THEN <<4 * d>> \o Indentation(ts, i + 1, d, "other")
             ELSE IF in = "start"
             THEN <<4 * d>> \o
                  Indentation(ts, i + 1, d,
                              IF StatementKind(ts, i) = "declaration" THEN "declaration"
                              ELSE "other")
             ELSE IF t = "COMMA" /\ in = "declaration"
             THEN <<4 * d>> \o Indentation(ts, i + 1, d, in)
             ELSE IF t = "RIGHTSHIFT" /\ TokType(ts, i - 1) # "CIN"
             THEN <<4 * d>> \o Indentation(ts, i + 1, d, in)
             ELSE Indentation(ts, i + 1, d, in)

\* the number of blanks each line of the translation starts with
OutputIndentation ==
    [k \in DOMAIN OutputLines(python_code) |-> LeadingSpaces(OutputLines(python_code)[k])]

\* an accepted program with no for loop (and no line break inside a string
\* literal, which would be a line of no statement)
AcceptedWithoutFor ==
    /\ Accepted
    /\ \A k \in DOMAIN toks : toks[k].type # "FOR"
    /\ ~LineBreakInLiteral(toks)

\* C10 (as claimed): in the translation of an accepted program without for
\* loops every statement and every header line is on a line of its own that
\* starts with four blanks per compound statement around it.
C10_IndentationPerLevel ==
    AcceptedWithoutFor => OutputIndentation = Indentation(toks, 1, 0, "start")

\* token k of ts starts a statement
StartsStatement(ts, k) ==
    \/ k = 1
    \/ ts[k - 1].type \in {"SEMICOLON", "LBRACE", "RBRACE"}
    \/ ts[k - 1].type = "GREATER" /\ TokType(ts, k - 2) = "IOSTREAM"

\* the same holds of the programs in which no statement is a bare expression
IndentationPerLevelWithoutBareExpression ==
    /\ AcceptedWithoutFor
    /\ \A k \in DOMAIN toks :
           StartsStatement(toks, k) => StatementKind(toks, k) # "expression"
    => OutputIndentation = Indentation(toks, 1, 0, "start")

=============================================================================
